---- MODULE Spec2Model ----
(***************************************************************************)
(* A model of src/src/daemon.js, the Daemon base class of                  *)
(* arduino-create-agent-js-client: the replay-latest streams it creates,   *)
(* the one-shot uploadingDone / uploadingError derivations, the polling    *)
(* loop of openChannel, the payload built by uploadSerial and the static   *)
(* devicesListAreEquals.                                                   *)
(*                                                                         *)
(* JavaScript strings that the code indexes (indexOf, substring) are       *)
(* sequences of one-character strings; null / undefined are explicit       *)
(* values.  Every action rewrites `trace`, the ordered list of the         *)
(* publications and collaborator calls that the handler made.              *)
(***************************************************************************)
EXTENDS Naturals, Integers, Sequences, FiniteSets, TLC

VARIABLES
  uploading,      \* latest value of the uploading BehaviorSubject
  doneSubs,       \* subscriptions to uploadingDone, in subscription order
  errSubs,        \* subscriptions to uploadingError, in subscription order
  everIP,         \* history: UPLOAD_IN_PROGRESS has been published
  firstTerminal,  \* history: first of DONE / ERROR since the last IN_PROGRESS
  donesSinceIP,   \* history: DONE publications since the last IN_PROGRESS (2: more)
  errorsSinceIP,  \* history: ERROR publications since the last IN_PROGRESS (2: more)
  atIP,           \* history: the subscriptions open at the last IN_PROGRESS
  args,           \* arguments of the last uploadSerial call
  uploaded,       \* arguments of the last _upload call
  channelOpen,    \* latest value of the channelOpen BehaviorSubject
  observers,      \* observers of channelOpen, in subscription order
  devicesList,    \* latest value of the devicesList BehaviorSubject
  agentFound,     \* latest value of the agentFound BehaviorSubject
  closeArmed,     \* the constructor's first() subscription is still active
  everNonEmpty,   \* history: a non-empty serial list has been published
  trace,          \* publications and calls made by the last action, in order
  eqA, eqB,       \* arguments of devicesListAreEquals
  eqResult,       \* its result, and whether the call was made
  eqC,            \* a third list, for the comparisons of three lists
  eqRel,          \* the results of comparing eqA, eqB and eqC with each other
  stopUploadCommand, \* whether this.stopUploadCommand is a function
  downloading,    \* latest value of the downloading BehaviorSubject
  dlDoneSubs,     \* subscriptions to downloadingDone, in subscription order
  dlErrSubs,      \* subscriptions to downloadingError, in subscription order
  statusGot,      \* history: the last value each channelOpenStatus subscriber got
  everCancelled   \* history: a close has cancelled a polling loop

vars == <<uploading, doneSubs, errSubs, everIP, firstTerminal, donesSinceIP,
          errorsSinceIP, atIP, args, uploaded, channelOpen, observers,
          devicesList, agentFound, closeArmed, everNonEmpty, trace, eqA, eqB,
          eqResult, eqC, eqRel, stopUploadCommand, downloading, dlDoneSubs,
          dlErrSubs, statusGot, everCancelled>>

uploadVars == <<uploading, doneSubs, errSubs, everIP, firstTerminal,
                donesSinceIP, errorsSinceIP, atIP, args, uploaded>>

channelVars == <<channelOpen, observers, devicesList, agentFound, closeArmed,
                 everNonEmpty, statusGot, everCancelled>>

eqVars == <<eqA, eqB, eqResult, eqC, eqRel>>

sideVars == <<stopUploadCommand, downloading, dlDoneSubs, dlErrSubs>>

(***************************************************************************)
(* Bounds of the model: the longest device list compared, the longest     *)
(* serial list published, the subscriptions made to each one-shot stream,  *)
(* the openChannel calls, the polling loops alive at once.                 *)
(***************************************************************************)
MaxListLen == 2

\* Longest list in the comparisons of three lists.
MaxTripleLen == 2

MaxSerialLen == 2

MaxSubs == 1

MaxOpenChannel == 2

MaxLoops == 3

(***************************************************************************)
(* JavaScript values.                                                      *)
(***************************************************************************)
Min(x, y) == IF x <= y THEN x ELSE y

Max(x, y) == IF x >= y THEN x ELSE y

\* null / undefined where the code expects an array, and a present array.
Null == [null |-> TRUE, list |-> <<>>]

Arr(s) == [null |-> FALSE, list |-> s]

\* undefined where the code expects a compiled artifact.
Undefined == "undefined"

\* String.prototype.indexOf(needle): the 0-based position of the first
\* occurrence of needle in s, -1 when there is none.
IndexOf(s, needle) ==
  LET hits == {i \in 0..(Len(s) - Len(needle)) :
                 SubSeq(s, i + 1, i + Len(needle)) = needle}
  IN IF hits = {} THEN -1 ELSE CHOOSE i \in hits : \A j \in hits : i <= j

\* String.prototype.substring(start, end): both ends clamped to 0..length and
\* swapped when start > end; the characters at 0-based start..end-1.
Substring(s, start, end) ==
  LET a == Min(Max(start, 0), Len(s))
      b == Min(Max(end, 0), Len(s))
  IN SubSeq(s, Min(a, b) + 1, Max(a, b))

(***************************************************************************)
(* devicesListAreEquals (static).                                          *)
(***************************************************************************)
Names == {"COM3", "COM4"}

\* A device as the agent lists it: the fields the comparison reads.
Device == [Name : Names, IsOpen : BOOLEAN]

RECURSIVE SeqsUpTo(_, _)
SeqsUpTo(S, n) ==
  IF n = 0 THEN {<<>>}
  ELSE LET shorter == SeqsUpTo(S, n - 1)
       IN shorter \cup {Append(s, x) : s \in {t \in shorter : Len(t) = n - 1}, x \in S}

\* The present lists compared three at a time: two ports, one of which may
\* be open.
TripleDevices ==
  {d \in Device : d.Name = "COM3" \/ ~d.IsOpen}

PresentLists == {Arr(s) : s \in SeqsUpTo(TripleDevices, MaxTripleLen)}

\* The arguments enumerated: null / undefined and every list up to the bound.
DeviceLists == {Null} \cup {Arr(s) : s \in SeqsUpTo(Device, MaxListLen)}

\* A mutation of devicesListAreEquals: IsOpen is not compared.
devicesListAreEqualsNameOnly(a, b) ==
  IF a.null \/ b.null \/ Len(a.list) # Len(b.list) THEN FALSE
  ELSE \A index \in 1..Len(a.list) : b.list[index].Name = a.list[index].Name

\* A mutation of devicesListAreEquals: every item of a is looked up anywhere
\* in b instead of at its own index.
devicesListAreEqualsAnyOrder(a, b) ==
  IF a.null \/ b.null \/ Len(a.list) # Len(b.list) THEN FALSE
  ELSE \A index \in 1..Len(a.list) :
         \E other \in 1..Len(b.list) :
           /\ b.list[other].Name = a.list[index].Name
           /\ b.list[other].IsOpen = a.list[index].IsOpen

\* A mutation of devicesListAreEquals: b may be longer than a.
devicesListAreEqualsPrefix(a, b) ==
  IF a.null \/ b.null \/ Len(a.list) > Len(b.list) THEN FALSE
  ELSE \A index \in 1..Len(a.list) :
         /\ b.list[index].Name = a.list[index].Name
         /\ b.list[index].IsOpen = a.list[index].IsOpen

\* static devicesListAreEquals(a, b)
devicesListAreEquals(a, b) ==
  IF a.null \/ b.null \/ Len(a.list) # Len(b.list) THEN FALSE
  ELSE \A index \in 1..Len(a.list) :
         /\ b.list[index].Name = a.list[index].Name
         /\ b.list[index].IsOpen = a.list[index].IsOpen

(***************************************************************************)
(* Constants set by the constructor.                                       *)
(***************************************************************************)
UPLOAD_NOPE == "UPLOAD_NOPE"

UPLOAD_DONE == "UPLOAD_DONE"

UPLOAD_ERROR == "UPLOAD_ERROR"

UPLOAD_IN_PROGRESS == "UPLOAD_IN_PROGRESS"

DOWNLOAD_DONE == "DOWNLOAD_DONE"

DOWNLOAD_NOPE == "DOWNLOAD_NOPE"

DOWNLOAD_ERROR == "DOWNLOAD_ERROR"

DOWNLOAD_IN_PROGRESS == "DOWNLOAD_IN_PROGRESS"

\* A value of the uploading stream: { status } or { status, err }.
Status(st) == [status |-> st, err |-> Undefined]

(***************************************************************************)
(* uploadSerial: the command info, the extension and the payload.          *)
(***************************************************************************)
\* The token '{build.project_name}' (20 characters).
ProjectNameToken ==
  <<"{", "b", "u", "i", "l", "d", ".", "p", "r", "o", "j", "e", "c", "t",
    "_", "n", "a", "m", "e", "}">>

Hex == <<"h", "e", "x">>

Bin == <<"b", "i", "n">>

Elf == <<"e", "l", "f">>

\* The commandline literal of uploadCommandInfo.
HardcodedCommandline ==
  <<
    "\"", "{", "r", "u", "n", "t", "i", "m", "e", ".", "t", "o", "o", "l", "s", 
    ".", "a", "v", "r", "d", "u", "d", "e", ".", "p", "a", "t", "h", "}", "/", 
    "b", "i", "n", "/", "a", "v", "r", "d", "u", "d", "e", "\"", " ", "\"", 
    "-", "C", "{", "r", "u", "n", "t", "i", "m", "e", ".", "t", "o", "o", "l", 
    "s", ".", "a", "v", "r", "d", "u", "d", "e", ".", "p", "a", "t", "h", "}", 
    "/", "e", "t", "c", "/", "a", "v", "r", "d", "u", "d", "e", ".", "c", "o", 
    "n", "f", "\"", " ", "{", "u", "p", "l", "o", "a", "d", ".", "v", "e", "r", 
    "b", "o", "s", "e", "}", " ", "-", "p", "a", "t", "m", "e", "g", "a", "3", 
    "2", "u", "4", " ", "-", "c", "a", "v", "r", "1", "0", "9", " ", "-", "P", 
    "{", "s", "e", "r", "i", "a", "l", ".", "p", "o", "r", "t", "}", " ", "-", 
    "D", " ", "\"", "-", "U", "f", "l", "a", "s", "h", ":", "w", ":", "{", "b", 
    "u", "i", "l", "d", ".", "p", "a", "t", "h", "}", "/", "{", "b", "u", "i", 
    "l", "d", ".", "p", "r", "o", "j", "e", "c", "t", "_", "n", "a", "m", "e", 
    "}", ".", "h", "e", "x", ":", "i", "\""
  >>

\* The signature literal of uploadCommandInfo.
HardcodedSignature ==
  "5e22e3da4c8b684750e80bc58f0581f0d4089a480d7777581a3c9d9a0178c065cc405a9d8d9b8c856bd0388c2777ca4a65680adfb5b4c0ae4ab2c98c3bbb435adc4c18a2b737af5689138b27cda1c4adb3d96dc12170f9cfd6632133f3d0b27dc3f03e9f28d38004b8f0d8f4495418fa238a9f0de0cb410464620ef9a9777a3bb0d8431a6226c98073c7885774fdde226e282d4fe9a7e221b5a1cc7dc46ef443083500ab80440703aaf18b1e5c055c418ad3c4287688935a386fb91b08b3801a5f3545e5bcf0dcaa5fb5488ecd37f4a8aee33ba3e0f1f31aaf07ff749eb0ee850a0ba84485695288b0905afb8b50fed302dba4d899adac8d253bb197e426874e"

\* const uploadCommandInfo = { commandline, signature, options }: both
\* parameters are commented out of the literal, which holds fixed strings.
uploadCommandInfo(commandline, signature) ==
  [commandline |-> HardcodedCommandline,
   signature |-> HardcodedSignature,
   options |-> [use_1200bps_touch |-> "true", wait_for_upload_port |-> "true"]]

\* compilationResult[key]: an object is a set of <<key, value>> pairs.
Lookup(compilationResult, key) ==
  IF \E p \in compilationResult : p[1] = key
  THEN (CHOOSE p \in compilationResult : p[1] = key)[2]
  ELSE Undefined

HasKey(compilationResult, key) == \E p \in compilationResult : p[1] = key

\* !value for an artifact: undefined and the empty string are falsy.
Falsy(value) == value \in {Undefined, ""}

\* The three characters read after the token:
\* substring(projectNameIndex + 21, projectNameIndex + 24).
ExtAfterToken(commandline) ==
  LET projectNameIndex == IndexOf(commandline, ProjectNameToken)
  IN Substring(commandline, projectNameIndex + 21, projectNameIndex + 24)

\* let ext = ...; if (!ext || !compilationResult[ext]) ext = 'bin'
Ext(info, compilationResult) ==
  LET ext == ExtAfterToken(info.commandline)
  IN IF ext = <<>> \/ Falsy(Lookup(compilationResult, ext)) THEN Bin ELSE ext

\* const uploadPayload = { ...target, commandline, filename, hex, data }:
\* later keys override the keys spread from target.
uploadPayload(target, sketchName, compilationResult, info) ==
  LET ext == Ext(info, compilationResult)
  IN [commandline |-> info.commandline,
      filename |-> sketchName \o <<".">> \o ext,
      hex |-> Lookup(compilationResult, ext),
      data |-> Lookup(compilationResult, ext)] @@ target

(***************************************************************************)
(* Inputs of uploadSerial.                                                 *)
(***************************************************************************)
Blink == <<"B", "l", "i", "n", "k">>

SketchNames == {Blink, <<"a">>}

\* A target carries its port; the second one also carries a field that the
\* payload overrides.
Targets == {[port |-> "COM3"], [port |-> "COM4", filename |-> <<"x">>]}

Signatures == {"sig1", "sig2"}

TwentyChars ==
  <<"a", "v", "r", "d", "u", "d", "e", " ", "-", "p", "a", "t", "m", "e",
    "g", "a", " ", "-", "U", ":">>

\* Templates: the token followed by '.hex', '.elf', '.bin'; the token at the
\* very end; the token followed by two characters; no token; and no token
\* with 'hex' at offsets 20..22.
Templates ==
  {<<"-", "U">> \o ProjectNameToken \o <<".">> \o Hex \o <<":", "i">>,
   <<"-", "U">> \o ProjectNameToken \o <<".">> \o Elf \o <<":", "i">>,
   ProjectNameToken \o <<".">> \o Bin,
   <<"-", "U">> \o ProjectNameToken,
   ProjectNameToken \o <<".", "h", "e">>,
   <<"a", "v", "r">>,
   TwentyChars \o Hex}

CompilationResults ==
  {{},
   {<<Hex, "HEXDATA">>},
   {<<Bin, "BINDATA">>},
   {<<Elf, "ELFDATA">>},
   {<<Hex, "HEXDATA">>, <<Bin, "BINDATA">>},
   {<<Elf, "ELFDATA">>, <<Bin, "BINDATA">>},
   {<<Hex, "">>}}

UploadInputs ==
  [target : Targets, sketchName : SketchNames,
   compilationResult : CompilationResults, commandline : Templates,
   signature : Signatures]

\* The calls made while the streams are explored: one upload that finds its
\* artifact and one that falls back.
StreamInputs ==
  {[target |-> [port |-> "COM3"], sketchName |-> Blink,
    compilationResult |-> cr, commandline |-> ProjectNameToken \o <<".">> \o Bin,
    signature |-> "sig1"] : cr \in {{<<Hex, "HEXDATA">>}, {<<Bin, "BINDATA">>}}}

(***************************************************************************)
(* The one-shot streams derived from uploading.  A subscription is         *)
(* [open, got]: whether it is still subscribed and what it has delivered.  *)
(* takeUntil subscribes its notifier before its source, so on every value  *)
(* the notifier's observers run before the source's.                       *)
(***************************************************************************)
Closed(sub) == [sub EXCEPT !.open = FALSE]

Deliver(sub, value) == [sub EXCEPT !.open = FALSE, !.got = Append(@, value)]

\* uploadingDone = uploading.filter(DONE).first().takeUntil(uploading.filter(ERROR)),
\* subscribed while the current value of uploading is `current`.
uploadingDoneSubscribe(current) ==
  LET fresh == [open |-> TRUE, got |-> <<>>]
  IN IF current.status = UPLOAD_ERROR THEN Closed(fresh)
     ELSE IF current.status = UPLOAD_DONE THEN Deliver(fresh, current)
     ELSE fresh

\* The same subscription when uploading publishes `value`.
uploadingDoneNext(sub, value) ==
  IF ~sub.open THEN sub
  ELSE IF value.status = UPLOAD_ERROR THEN Closed(sub)
  ELSE IF value.status = UPLOAD_DONE THEN Deliver(sub, value)
  ELSE sub

\* A mutation of uploadingErrorNext: no takeUntil(uploadingDone), a DONE
\* leaves the subscription open.
uploadingErrorNextNoTakeUntil(sub, value) ==
  IF ~sub.open THEN sub
  ELSE IF value.status = UPLOAD_ERROR
       THEN [open |-> FALSE, got |-> Append(sub.got, value),
             inner |-> Closed(sub.inner)]
  ELSE sub

\* A mutation of uploadingErrorSubscribe: a notifier that completes ends the
\* subscription, so nothing is delivered when the current status is ERROR.
uploadingErrorSubscribeEndsWithNotifier(current) ==
  LET inner == uploadingDoneSubscribe(current)
  IN IF ~inner.open
     THEN [open |-> FALSE, got |-> <<>>, inner |-> inner]
     ELSE [open |-> TRUE, got |-> <<>>, inner |-> inner]

\* uploadingError = uploading.filter(ERROR).first().takeUntil(uploadingDone):
\* the notifier is an inner subscription to uploadingDone, made first.
uploadingErrorSubscribe(current) ==
  LET inner == uploadingDoneSubscribe(current)
  IN IF inner.got # <<>>
     THEN [open |-> FALSE, got |-> <<>>, inner |-> inner]
     ELSE IF current.status = UPLOAD_ERROR
          THEN [open |-> FALSE, got |-> <<current>>, inner |-> Closed(inner)]
     ELSE [open |-> TRUE, got |-> <<>>, inner |-> inner]

\* The same subscription when uploading publishes `value`.
uploadingErrorNext(sub, value) ==
  IF ~sub.open THEN sub
  ELSE LET inner == uploadingDoneNext(sub.inner, value)
       IN IF inner.got # <<>>
          THEN [open |-> FALSE, got |-> sub.got, inner |-> inner]
          ELSE IF value.status = UPLOAD_ERROR
               THEN [open |-> FALSE, got |-> Append(sub.got, value),
                     inner |-> Closed(inner)]
          ELSE [sub EXCEPT !.inner = inner]

OpenSubs(subs) == {i \in 1..Len(subs) : subs[i].open}

\* uploading.next(value): the subject stores the value and hands it to every
\* subscription; the history variables follow the publication.
UploadingNext(value) ==
  /\ uploading' = value
  /\ doneSubs' = [i \in 1..Len(doneSubs) |-> uploadingDoneNext(doneSubs[i], value)]
  /\ errSubs' = [i \in 1..Len(errSubs) |-> uploadingErrorNext(errSubs[i], value)]
  /\ everIP' = (everIP \/ value.status = UPLOAD_IN_PROGRESS)
  /\ firstTerminal' =
       IF value.status = UPLOAD_IN_PROGRESS THEN "none"
       ELSE IF /\ everIP
               /\ firstTerminal = "none"
               /\ value.status \in {UPLOAD_DONE, UPLOAD_ERROR}
            THEN value.status
       ELSE firstTerminal
  /\ donesSinceIP' =
       IF value.status = UPLOAD_IN_PROGRESS THEN 0
       ELSE IF value.status = UPLOAD_DONE THEN Min(donesSinceIP + 1, 2)
       ELSE donesSinceIP
  /\ errorsSinceIP' =
       IF value.status = UPLOAD_IN_PROGRESS THEN 0
       ELSE IF value.status = UPLOAD_ERROR THEN Min(errorsSinceIP + 1, 2)
       ELSE errorsSinceIP
  /\ atIP' =
       IF value.status = UPLOAD_IN_PROGRESS
       THEN <<OpenSubs(doneSubs), OpenSubs(errSubs)>>
       ELSE atIP

Errs == {"e1", "e2"}

\* notifyUploadError(err)
notifyUploadError(err) ==
  /\ UploadingNext([status |-> UPLOAD_ERROR, err |-> err])
  /\ trace' = << <<"uploading.next", UPLOAD_ERROR>> >>
  /\ UNCHANGED <<args, uploaded>>
  /\ UNCHANGED <<channelVars, eqVars, sideVars>>

\* A mutation of uploadSerial: the serial monitor is closed and _upload is
\* called before IN_PROGRESS is published.
uploadSerialPublishLast(target, sketchName, compilationResult, commandline, signature) ==
  LET info == uploadCommandInfo(commandline, signature)
  IN /\ UploadingNext(Status(UPLOAD_IN_PROGRESS))
     /\ args' = << [target |-> target, sketchName |-> sketchName,
                   compilationResult |-> compilationResult,
                   commandline |-> commandline, signature |-> signature] >>
     /\ uploaded' = << [payload |-> uploadPayload(target, sketchName,
                                                  compilationResult, info),
                       info |-> info] >>
     /\ trace' = << <<"closeSerialMonitor", target.port>>,
                    <<"_upload", "uploadPayload">>,
                    <<"uploading.next", UPLOAD_IN_PROGRESS>> >>
     /\ UNCHANGED <<channelVars, eqVars, sideVars>>

\* uploadSerial(target, sketchName, compilationResult, commandline, signature);
\* the sixth parameter, verbose, is never read.  closeSerialMonitor and
\* _upload belong to the transport: the calls are recorded.
uploadSerial(target, sketchName, compilationResult, commandline, signature) ==
  LET info == uploadCommandInfo(commandline, signature)
  IN /\ UploadingNext(Status(UPLOAD_IN_PROGRESS))
     /\ args' = << [target |-> target, sketchName |-> sketchName,
                   compilationResult |-> compilationResult,
                   commandline |-> commandline, signature |-> signature] >>
     /\ uploaded' = << [payload |-> uploadPayload(target, sketchName,
                                                  compilationResult, info),
                       info |-> info] >>
     /\ trace' = << <<"uploading.next", UPLOAD_IN_PROGRESS>>,
                    <<"closeSerialMonitor", target.port>>,
                    <<"_upload", "uploadPayload">> >>
     /\ UNCHANGED <<channelVars, eqVars, sideVars>>

\* The agent reports the upload in flight as done: the message router
\* publishes DONE for the session that is in progress.
handleUploadDone ==
  /\ uploading.status = UPLOAD_IN_PROGRESS
  /\ UploadingNext(Status(UPLOAD_DONE))
  /\ trace' = << <<"uploading.next", UPLOAD_DONE>> >>
  /\ UNCHANGED <<args, uploaded>>
  /\ UNCHANGED <<channelVars, eqVars, sideVars>>

\* uploading is a public subject: a publication of DONE or IN_PROGRESS made
\* on it whatever the current status.
publishUploading(st) ==
  /\ UploadingNext(Status(st))
  /\ trace' = << <<"uploading.next", st>> >>
  /\ UNCHANGED <<args, uploaded>>
  /\ UNCHANGED <<channelVars, eqVars, sideVars>>

\* daemon.uploadingDone.subscribe(...)
subscribeUploadingDone ==
  /\ Len(doneSubs) < MaxSubs
  /\ doneSubs' = Append(doneSubs, uploadingDoneSubscribe(uploading))
  /\ trace' = << <<"subscribe", "uploadingDone">> >>
  /\ UNCHANGED <<uploading, errSubs, everIP, firstTerminal, donesSinceIP,
                 errorsSinceIP, atIP, args, uploaded>>
  /\ UNCHANGED <<channelVars, eqVars, sideVars>>

\* daemon.uploadingError.subscribe(...)
subscribeUploadingError ==
  /\ Len(errSubs) < MaxSubs
  /\ errSubs' = Append(errSubs, uploadingErrorSubscribe(uploading))
  /\ trace' = << <<"subscribe", "uploadingError">> >>
  /\ UNCHANGED <<uploading, doneSubs, everIP, firstTerminal, donesSinceIP,
                 errorsSinceIP, atIP, args, uploaded>>
  /\ UNCHANGED <<channelVars, eqVars, sideVars>>

(***************************************************************************)
(* channelOpen, the polling loop of openChannel, devicesList, agentFound.  *)
(* true, false and null are "true", "false" and "null".  The observers of  *)
(* channelOpen are kept in subscription order: <<"openChannel", cb>> for   *)
(* the subscriber of an openChannel(cb) call, <<"takeUntil", cb>> for the  *)
(* notifier of one running interval: a polling loop is alive exactly while *)
(* its notifier is subscribed.                                             *)
(***************************************************************************)
Truthy(value) == value = "true"

Callbacks == {"cb1", "cb2"}

EmptyDevices == [serial |-> Arr(<<>>), network |-> <<>>]

\* filter(devices => devices.serial && devices.serial.length > 0)
SerialNonEmpty(devices) == ~devices.serial.null /\ Len(devices.serial.list) > 0

Tag(devices) == IF SerialNonEmpty(devices) THEN "non-empty" ELSE "empty"

NumOpenChannel(obs) == Cardinality({i \in 1..Len(obs) : obs[i][1] = "openChannel"})

NumLoops(obs) == Cardinality({i \in 1..Len(obs) : obs[i][1] = "takeUntil"})

Count(tr, entry) == Cardinality({i \in 1..Len(tr) : tr[i] = entry})

RECURSIVE RemoveFirst(_, _)
RemoveFirst(s, x) ==
  IF s = <<>> THEN <<>>
  ELSE IF Head(s) = x THEN Tail(s)
  ELSE <<Head(s)>> \o RemoveFirst(Tail(s), x)

\* The state a handler works on while it runs.
Context ==
  [devicesList |-> devicesList, agentFound |-> agentFound,
   closeArmed |-> closeArmed, observers |-> observers, trace |-> <<>>]

\* A mutation of devicesListNext: no first(), closeAllPorts is called for
\* every non-empty serial list.
devicesListNextNoFirst(ctx, devices) ==
  LET fire == ctx.closeArmed /\ SerialNonEmpty(devices)
  IN [ctx EXCEPT
        !.devicesList = devices,
        !.trace = @ \o << <<"devicesList.next", Tag(devices)>> >>
                    \o (IF fire THEN << <<"closeAllPorts", "">> >> ELSE <<>>)]

\* devicesList.next(devices) with the constructor's subscription
\* devicesList.filter(serial non-empty).first().subscribe(closeAllPorts).
devicesListNext(ctx, devices) ==
  LET fire == ctx.closeArmed /\ SerialNonEmpty(devices)
  IN [ctx EXCEPT
        !.devicesList = devices,
        !.closeArmed = @ /\ ~fire,
        !.trace = @ \o << <<"devicesList.next", Tag(devices)>> >>
                    \o (IF fire THEN << <<"closeAllPorts", "">> >> ELSE <<>>)]

\* agentFound.next(value)
agentFoundNext(ctx, value) ==
  [ctx EXCEPT !.agentFound = value,
              !.trace = Append(@, <<"agentFound.next", value>>)]

\* A mutation of openChannelSubscriber: the else branch does not publish on
\* agentFound.
openChannelSubscriberNoAgentFound(ctx, open, cb) ==
  IF Truthy(open)
  THEN [ctx EXCEPT !.observers = Append(@, <<"takeUntil", cb>>),
                   !.trace = Append(@, <<"cb", cb>>)]
  ELSE devicesListNext(ctx, EmptyDevices)

\* A mutation of openChannelSubscriber: no startWith(0), cb waits for the
\* first tick of the interval.
openChannelSubscriberNoStartWith(ctx, open, cb) ==
  IF Truthy(open)
  THEN [ctx EXCEPT !.observers = Append(@, <<"takeUntil", cb>>)]
  ELSE agentFoundNext(devicesListNext(ctx, EmptyDevices), "false")

\* The subscriber that openChannel(cb) puts on channelOpen: on a truthy value
\* interval(POLLING_INTERVAL).startWith(0).takeUntil(channelOpen.filter(falsy))
\* is subscribed with cb, which startWith invokes at once; on a falsy value
\* the device list is reset and agentFound publishes false.
openChannelSubscriber(ctx, open, cb) ==
  IF Truthy(open)
  THEN [ctx EXCEPT !.observers = Append(@, <<"takeUntil", cb>>),
                   !.trace = Append(@, <<"cb", cb>>)]
  ELSE agentFoundNext(devicesListNext(ctx, EmptyDevices), "false")

\* A mutation of takeUntilNotifier: the interval is not cancelled.
takeUntilNotifierNever(ctx, observer, status) == ctx

\* takeUntil(channelOpen.pipe(filter(status => !status))): a falsy value
\* completes the loop and unsubscribes its interval.
takeUntilNotifier(ctx, observer, status) ==
  IF ~Truthy(status)
  THEN [ctx EXCEPT !.observers = RemoveFirst(@, observer),
                   !.trace = Append(@, <<"interval.unsubscribe", observer[2]>>)]
  ELSE ctx

\* Subscribers of channelOpenStatus and of channelOpen are named in
\* subscription order; a delivery to one is the trace entry <<name, value>>.
StatusIds == <<"status1", "status2", "status3">>

RawIds == <<"raw1", "raw2", "raw3">>

NumStatusSubs(obs) ==
  Cardinality({i \in 1..Len(obs) : obs[i][1] = "distinctUntilChanged"})

NumRawSubs(obs) == Cardinality({i \in 1..Len(obs) : obs[i][1] = "channelOpen"})

\* A subscriber of channelOpenStatus is the observer
\* <<"distinctUntilChanged", name, key>> on channelOpen, key being "none"
\* while the operator has no key yet.
StatusObserver(obs, name) ==
  CHOOSE i \in 1..Len(obs) : obs[i][1] = "distinctUntilChanged" /\ obs[i][2] = name

\* A mutation of distinctUntilChangedNext: every value is passed on.
distinctUntilChangedNextAlways(ctx, name, value) ==
  LET i == StatusObserver(ctx.observers, name)
  IN [ctx EXCEPT !.observers[i] = <<"distinctUntilChanged", name, value>>,
                 !.trace = Append(@, <<name, value>>)]

\* channelOpen.pipe(distinctUntilChanged()): the first value is passed on,
\* a later one only when it differs (===) from the key, which then becomes
\* the value.
distinctUntilChangedNext(ctx, name, value) ==
  LET i == StatusObserver(ctx.observers, name)
      key == ctx.observers[i][3]
  IN IF key = "none" \/ key # value
     THEN [ctx EXCEPT !.observers[i] = <<"distinctUntilChanged", name, value>>,
                      !.trace = Append(@, <<name, value>>)]
     ELSE ctx

\* A subscriber of channelOpen itself gets the value as it is.
channelOpenDeliver(ctx, name, value) ==
  [ctx EXCEPT !.trace = Append(@, <<name, value>>)]

\* Subject.next hands the value to a copy of the observer list, in order.
RECURSIVE channelOpenNotify(_, _, _)
channelOpenNotify(ctx, snapshot, value) ==
  IF snapshot = <<>> THEN ctx
  ELSE LET o == Head(snapshot)
       IN channelOpenNotify(
            IF o[1] = "openChannel" THEN openChannelSubscriber(ctx, value, o[2])
            ELSE IF o[1] = "takeUntil" THEN takeUntilNotifier(ctx, o, value)
            ELSE IF o[1] = "distinctUntilChanged"
              THEN distinctUntilChangedNext(ctx, o[2], value)
            ELSE channelOpenDeliver(ctx, o[2], value),
            Tail(snapshot), value)

\* History: what each channelOpenStatus subscriber last got, read off the
\* deliveries of the step.
StatusGotAfter(ctx) ==
  [k \in 1..NumStatusSubs(ctx.observers) |->
     LET ds == {i \in 1..Len(ctx.trace) : ctx.trace[i][1] = StatusIds[k]}
     IN IF ds = {} THEN statusGot[k]
        ELSE ctx.trace[CHOOSE i \in ds : \A j \in ds : j <= i][2]]

\* The handler's result becomes the next state.
Commit(ctx) ==
  /\ devicesList' = ctx.devicesList
  /\ agentFound' = ctx.agentFound
  /\ closeArmed' = ctx.closeArmed
  /\ observers' = ctx.observers
  /\ trace' = ctx.trace
  /\ everNonEmpty' =
       (everNonEmpty \/ Count(ctx.trace, <<"devicesList.next", "non-empty">>) > 0)
  /\ statusGot' = StatusGotAfter(ctx)
  /\ everCancelled' =
       (everCancelled \/ \E i \in 1..Len(ctx.trace) :
                           ctx.trace[i][1] = "interval.unsubscribe")

\* openChannel(cb): the subscriber is added to channelOpen, which replays its
\* current value to it.
openChannel(cb) ==
  /\ NumOpenChannel(observers) < MaxOpenChannel
  /\ Truthy(channelOpen) => NumLoops(observers) < MaxLoops
  /\ Commit(openChannelSubscriber(
       [Context EXCEPT !.observers = Append(@, <<"openChannel", cb>>)],
       channelOpen, cb))
  /\ UNCHANGED channelOpen
  /\ UNCHANGED <<uploadVars, eqVars, sideVars>>

\* A mutation of channelOpenNext: a close fails the upload.
channelOpenNextFailsUpload(value) ==
  /\ Truthy(value) => NumLoops(observers) + NumOpenChannel(observers) <= MaxLoops
  /\ channelOpen' = value
  /\ Commit(channelOpenNotify(
       [Context EXCEPT !.trace = << <<"channelOpen.next", value>> >>],
       observers, value))
  /\ IF Truthy(value) THEN UNCHANGED uploadVars
     ELSE UploadingNext(Status(UPLOAD_ERROR)) /\ UNCHANGED <<args, uploaded>>
  /\ UNCHANGED <<eqVars, sideVars>>

\* channelOpen.next(value), made by the transport when the channel opens or
\* closes.
channelOpenNext(value) ==
  /\ Truthy(value) => NumLoops(observers) + NumOpenChannel(observers) <= MaxLoops
  /\ channelOpen' = value
  /\ Commit(channelOpenNotify(
       [Context EXCEPT !.trace = << <<"channelOpen.next", value>> >>],
       observers, value))
  /\ UNCHANGED <<uploadVars, eqVars, sideVars>>

\* channelOpenStatus.subscribe(...): a distinctUntilChanged of its own is
\* subscribed to channelOpen, which replays its current value through it.
subscribeChannelOpenStatus ==
  /\ NumStatusSubs(observers) < MaxSubs
  /\ LET name == StatusIds[NumStatusSubs(observers) + 1]
     IN Commit(distinctUntilChangedNext(
          [Context EXCEPT
             !.observers = Append(@, <<"distinctUntilChanged", name, "none">>),
             !.trace = << <<"subscribe", "channelOpenStatus">> >>],
          name, channelOpen))
  /\ UNCHANGED channelOpen
  /\ UNCHANGED <<uploadVars, eqVars, sideVars>>

\* channelOpen.subscribe(...): the BehaviorSubject replays its current value.
subscribeChannelOpen ==
  /\ NumRawSubs(observers) < MaxSubs
  /\ LET name == RawIds[NumRawSubs(observers) + 1]
     IN Commit(channelOpenDeliver(
          [Context EXCEPT
             !.observers = Append(@, <<"channelOpen", name>>),
             !.trace = << <<"subscribe", "channelOpen">> >>],
          name, channelOpen))
  /\ UNCHANGED channelOpen
  /\ UNCHANGED <<uploadVars, eqVars, sideVars>>

\* One tick of the interval of a running loop: cb is invoked.
intervalTick(i) ==
  /\ observers[i][1] = "takeUntil"
  /\ trace' = << <<"cb", observers[i][2]>> >>
  /\ UNCHANGED <<channelOpen, observers, devicesList, agentFound, closeArmed,
                 everNonEmpty, statusGot, everCancelled>>
  /\ UNCHANGED <<uploadVars, eqVars, sideVars>>

NetworkDevice == [Name |-> "board.local", IsOpen |-> FALSE]

\* The device lists the agent reports.
PublishedDevices ==
  {[serial |-> s, network |-> n] :
     s \in {Null} \cup {Arr(l) : l \in SeqsUpTo([Name : {"COM3"}, IsOpen : BOOLEAN], MaxSerialLen)},
     n \in {<<>>, <<NetworkDevice>>}}

\* The message router publishes each device list it receives.
updateDevices(devices) ==
  /\ Commit(devicesListNext(Context, devices))
  /\ UNCHANGED channelOpen
  /\ UNCHANGED <<uploadVars, eqVars, sideVars>>

\* The transport publishes whether it has found the agent.
setAgentFound(value) ==
  /\ Commit(agentFoundNext(Context, value))
  /\ UNCHANGED channelOpen
  /\ UNCHANGED <<uploadVars, eqVars, sideVars>>

(***************************************************************************)
(* The call of devicesListAreEquals.                                       *)
(***************************************************************************)
compare ==
  /\ ~eqResult.called
  /\ eqResult' = [called |-> TRUE, value |-> devicesListAreEquals(eqA, eqB)]
  /\ trace' = << <<"devicesListAreEquals", "">> >>
  /\ UNCHANGED <<eqA, eqB, eqC, eqRel>>
  /\ UNCHANGED <<uploadVars, channelVars, sideVars>>

\* The calls of devicesListAreEquals on three lists: each with itself, two
\* both ways round, and along the chain a, b, c.
compareThree ==
  /\ ~eqRel.called
  /\ eqRel' = [called |-> TRUE,
               aa |-> devicesListAreEquals(eqA, eqA),
               ab |-> devicesListAreEquals(eqA, eqB),
               ba |-> devicesListAreEquals(eqB, eqA),
               bc |-> devicesListAreEquals(eqB, eqC),
               ac |-> devicesListAreEquals(eqA, eqC)]
  /\ trace' = << <<"devicesListAreEquals", "">> >>
  /\ UNCHANGED <<eqA, eqB, eqC, eqResult>>
  /\ UNCHANGED <<uploadVars, channelVars, sideVars>>

(***************************************************************************)
(* The one-shot streams derived from downloading, written from their own   *)
(* definitions in the constructor.                                         *)
(***************************************************************************)
\* downloadingDone =
\*   downloading.filter(DONE).first().takeUntil(downloading.filter(ERROR)),
\* subscribed while the current value of downloading is `current`.
downloadingDoneSubscribe(current) ==
  LET fresh == [open |-> TRUE, got |-> <<>>]
  IN IF current.status = DOWNLOAD_ERROR THEN Closed(fresh)
     ELSE IF current.status = DOWNLOAD_DONE THEN Deliver(fresh, current)
     ELSE fresh

\* The same subscription when downloading publishes `value`.
downloadingDoneNext(sub, value) ==
  IF ~sub.open THEN sub
  ELSE IF value.status = DOWNLOAD_ERROR THEN Closed(sub)
  ELSE IF value.status = DOWNLOAD_DONE THEN Deliver(sub, value)
  ELSE sub

\* downloadingError =
\*   downloading.filter(ERROR).first().takeUntil(downloadingDone):
\* the notifier is an inner subscription to downloadingDone, made first.
downloadingErrorSubscribe(current) ==
  LET inner == downloadingDoneSubscribe(current)
  IN IF inner.got # <<>>
     THEN [open |-> FALSE, got |-> <<>>, inner |-> inner]
     ELSE IF current.status = DOWNLOAD_ERROR
          THEN [open |-> FALSE, got |-> <<current>>, inner |-> Closed(inner)]
     ELSE [open |-> TRUE, got |-> <<>>, inner |-> inner]

\* A mutation of downloadingErrorNext: no takeUntil(downloadingDone), a DONE
\* leaves the subscription open.
downloadingErrorNextNoTakeUntil(sub, value) ==
  IF ~sub.open THEN sub
  ELSE IF value.status = DOWNLOAD_ERROR
       THEN [open |-> FALSE, got |-> Append(sub.got, value),
             inner |-> Closed(sub.inner)]
  ELSE sub

\* The same subscription when downloading publishes `value`.
downloadingErrorNext(sub, value) ==
  IF ~sub.open THEN sub
  ELSE LET inner == downloadingDoneNext(sub.inner, value)
       IN IF inner.got # <<>>
          THEN [open |-> FALSE, got |-> sub.got, inner |-> inner]
          ELSE IF value.status = DOWNLOAD_ERROR
               THEN [open |-> FALSE, got |-> Append(sub.got, value),
                     inner |-> Closed(inner)]
          ELSE [sub EXCEPT !.inner = inner]

\* downloading.next(value): the subject stores the value and hands it to
\* every subscription.
DownloadingNext(value) ==
  /\ downloading' = value
  /\ dlDoneSubs' =
       [i \in 1..Len(dlDoneSubs) |-> downloadingDoneNext(dlDoneSubs[i], value)]
  /\ dlErrSubs' =
       [i \in 1..Len(dlErrSubs) |-> downloadingErrorNext(dlErrSubs[i], value)]

\* The transport publishes the state of a tool download.
publishDownloading(value) ==
  /\ DownloadingNext(value)
  /\ trace' = << <<"downloading.next", value.status>> >>
  /\ UNCHANGED stopUploadCommand
  /\ UNCHANGED <<uploadVars, channelVars, eqVars>>

\* The values published on downloading.
DownloadValues ==
  {Status(st) : st \in {DOWNLOAD_NOPE, DOWNLOAD_IN_PROGRESS, DOWNLOAD_DONE,
                        DOWNLOAD_ERROR}}
    \cup {[status |-> DOWNLOAD_ERROR, err |-> "e1"]}

\* The upload status that a download status corresponds to.
UploadStatus(st) ==
  IF st = DOWNLOAD_NOPE THEN UPLOAD_NOPE
  ELSE IF st = DOWNLOAD_IN_PROGRESS THEN UPLOAD_IN_PROGRESS
  ELSE IF st = DOWNLOAD_DONE THEN UPLOAD_DONE
  ELSE UPLOAD_ERROR

AsUpload(value) == [value EXCEPT !.status = UploadStatus(@)]

\* The two subjects publish corresponding values in one step.
publishBoth(value) ==
  /\ DownloadingNext(value)
  /\ UploadingNext(AsUpload(value))
  /\ trace' = << <<"downloading.next", value.status>>,
                 <<"uploading.next", UploadStatus(value.status)>> >>
  /\ UNCHANGED <<args, uploaded, stopUploadCommand>>
  /\ UNCHANGED <<channelVars, eqVars>>

\* downloadingDone.subscribe and uploadingDone.subscribe at the same moment.
subscribeBothDone ==
  /\ Len(dlDoneSubs) < MaxSubs
  /\ dlDoneSubs' = Append(dlDoneSubs, downloadingDoneSubscribe(downloading))
  /\ doneSubs' = Append(doneSubs, uploadingDoneSubscribe(uploading))
  /\ trace' = << <<"subscribe", "downloadingDone">>, <<"subscribe", "uploadingDone">> >>
  /\ UNCHANGED <<uploading, errSubs, everIP, firstTerminal, donesSinceIP,
                 errorsSinceIP, atIP, args, uploaded>>
  /\ UNCHANGED <<stopUploadCommand, downloading, dlErrSubs>>
  /\ UNCHANGED <<channelVars, eqVars>>

\* downloadingError.subscribe and uploadingError.subscribe at the same moment.
subscribeBothError ==
  /\ Len(dlErrSubs) < MaxSubs
  /\ dlErrSubs' = Append(dlErrSubs, downloadingErrorSubscribe(downloading))
  /\ errSubs' = Append(errSubs, uploadingErrorSubscribe(uploading))
  /\ trace' = << <<"subscribe", "downloadingError">>, <<"subscribe", "uploadingError">> >>
  /\ UNCHANGED <<uploading, doneSubs, everIP, firstTerminal, donesSinceIP,
                 errorsSinceIP, atIP, args, uploaded>>
  /\ UNCHANGED <<stopUploadCommand, downloading, dlDoneSubs>>
  /\ UNCHANGED <<channelVars, eqVars>>

(***************************************************************************)
(* stopUpload.  this.stopUploadCommand is assigned by the transport that   *)
(* can interrupt an upload; stopUploadCommand is TRUE while it is a        *)
(* function.  A step of stopUpload starts its trace with <<"stopUpload",   *)
(* "">>, followed by what the call did.                                    *)
(***************************************************************************)
\* The transport registers or removes its cancellation function.
setStopUploadCommand(registered) ==
  /\ stopUploadCommand' = registered
  /\ trace' = << <<"stopUploadCommand =", IF registered THEN "function" ELSE "undefined">> >>
  /\ UNCHANGED <<downloading, dlDoneSubs, dlErrSubs>>
  /\ UNCHANGED <<uploadVars, channelVars, eqVars>>

\* A mutation of stopUploadBody: nothing is thrown without the command.
stopUploadBodyNoThrow(registered) ==
  IF registered THEN << <<"stopUploadCommand", "">> >> ELSE <<>>

\* if (typeof this.stopUploadCommand === 'function') this.stopUploadCommand()
\* else throw new Error('Stop Upload not supported on Chrome OS')
stopUploadBody(registered) ==
  IF registered
  THEN << <<"stopUploadCommand", "">> >>
  ELSE << <<"throw", "Stop Upload not supported on Chrome OS">> >>

stopUpload ==
  /\ trace' = << <<"stopUpload", "">> >> \o stopUploadBody(stopUploadCommand)
  /\ UNCHANGED <<uploadVars, channelVars, eqVars, sideVars>>

(***************************************************************************)
(* Specifications.  Init is the Daemon as its constructor leaves it.       *)
(***************************************************************************)
DaemonInit ==
  /\ uploading = Status(UPLOAD_NOPE)
  /\ doneSubs = <<>>
  /\ errSubs = <<>>
  /\ everIP = FALSE
  /\ firstTerminal = "none"
  /\ donesSinceIP = 0
  /\ errorsSinceIP = 0
  /\ atIP = <<{}, {}>>
  /\ args = <<>>
  /\ uploaded = <<>>
  /\ channelOpen = "null"
  /\ observers = <<>>
  /\ devicesList = EmptyDevices
  /\ agentFound = "null"
  /\ closeArmed = TRUE
  /\ everNonEmpty = FALSE
  /\ trace = <<>>
  /\ stopUploadCommand = FALSE
  /\ downloading = Status(DOWNLOAD_NOPE)
  /\ dlDoneSubs = <<>>
  /\ dlErrSubs = <<>>
  /\ statusGot = <<>>
  /\ everCancelled = FALSE

NoRelation ==
  [called |-> FALSE, aa |-> FALSE, ab |-> FALSE, ba |-> FALSE, bc |-> FALSE,
   ac |-> FALSE]

EqIdle ==
  /\ eqA = Null
  /\ eqB = Null
  /\ eqC = Null
  /\ eqResult = [called |-> FALSE, value |-> FALSE]
  /\ eqRel = NoRelation

Init == DaemonInit /\ EqIdle

\* Uploads whose DONE comes from the agent for the session in progress.
Next ==
  \/ \E u \in StreamInputs :
       uploadSerial(u.target, u.sketchName, u.compilationResult, u.commandline,
                    u.signature)
  \/ \E err \in Errs : notifyUploadError(err)
  \/ handleUploadDone
  \/ subscribeUploadingDone
  \/ subscribeUploadingError

Spec == Init /\ [][Next]_vars

\* Uploads with DONE and IN_PROGRESS published in any order.
NextAnyOrder ==
  \/ \E u \in StreamInputs :
       uploadSerial(u.target, u.sketchName, u.compilationResult, u.commandline,
                    u.signature)
  \/ \E err \in Errs : notifyUploadError(err)
  \/ \E st \in {UPLOAD_DONE, UPLOAD_IN_PROGRESS} : publishUploading(st)
  \/ subscribeUploadingDone
  \/ subscribeUploadingError

SpecAnyOrder == Init /\ [][NextAnyOrder]_vars

\* Connectivity, polling and the device list.
NextChannel ==
  \/ \E cb \in Callbacks : openChannel(cb)
  \/ \E value \in {"true", "false", "null"} : channelOpenNext(value)
  \/ \E i \in 1..Len(observers) : intervalTick(i)
  \/ \E devices \in PublishedDevices : updateDevices(devices)
  \/ \E value \in {"true", "false"} : setAgentFound(value)

SpecChannel == Init /\ [][NextChannel]_vars

\* The connectivity streams and their subscribers, for one openChannel call.
NextStatus ==
  \/ \E value \in {"true", "false", "null"} : channelOpenNext(value)
  \/ subscribeChannelOpenStatus
  \/ subscribeChannelOpen
  \/ NumOpenChannel(observers) = 0 /\ openChannel("cb1")
  \/ \E i \in 1..Len(observers) : intervalTick(i)

SpecStatus == Init /\ [][NextStatus]_vars

\* The download streams side by side with the upload streams: the same
\* publications, under the renaming of the statuses, and the same
\* subscription moments.
NextMirror ==
  \/ \E value \in DownloadValues : publishBoth(value)
  \/ subscribeBothDone
  \/ subscribeBothError

SpecMirror == Init /\ [][NextMirror]_vars

\* The device lists of the runs that mix uploads with connectivity.
FrameDevices ==
  {EmptyDevices,
   [serial |-> Arr(<< [Name |-> "COM3", IsOpen |-> FALSE] >>), network |-> <<>>]}

\* Uploads together with connectivity, polling, the device list and
\* stopUpload, for one openChannel call.
NextFrame ==
  \/ uploadSerial([port |-> "COM3"], Blink, {<<Hex, "HEXDATA">>},
                  ProjectNameToken \o <<".">> \o Hex, "sig1")
  \/ notifyUploadError("e1")
  \/ handleUploadDone
  \/ NumOpenChannel(observers) = 0 /\ openChannel("cb1")
  \/ \E value \in {"true", "false"} : channelOpenNext(value)
  \/ \E i \in 1..Len(observers) : intervalTick(i)
  \/ \E devices \in FrameDevices : updateDevices(devices)
  \/ setAgentFound("true")
  \/ \E registered \in BOOLEAN : setStopUploadCommand(registered)
  \/ stopUpload
  \/ publishDownloading(Status(DOWNLOAD_IN_PROGRESS))

SpecFrame == Init /\ [][NextFrame]_vars

\* The first uploadSerial call of a Daemon, over all its inputs, and what
\* may follow it.
NextPayload ==
  \/ \E u \in UploadInputs :
       /\ args = <<>>
       /\ uploadSerial(u.target, u.sketchName, u.compilationResult,
                       u.commandline, u.signature)
  \/ \E err \in Errs : notifyUploadError(err)
  \/ handleUploadDone

SpecPayload == Init /\ [][NextPayload]_vars

\* devicesListAreEquals over all its arguments.
InitEq ==
  /\ DaemonInit
  /\ eqA \in DeviceLists
  /\ eqB \in DeviceLists
  /\ eqC = Null
  /\ eqResult = [called |-> FALSE, value |-> FALSE]
  /\ eqRel = NoRelation

NextEq == compare

SpecEq == InitEq /\ [][NextEq]_vars

\* devicesListAreEquals over three present lists.
InitEqThree ==
  /\ DaemonInit
  /\ eqA \in PresentLists
  /\ eqB \in PresentLists
  /\ eqC \in PresentLists
  /\ eqResult = [called |-> FALSE, value |-> FALSE]
  /\ eqRel = NoRelation

NextEqThree == compareThree

SpecEqThree == InitEqThree /\ [][NextEqThree]_vars

(***************************************************************************)
(* Properties.                                                             *)
(***************************************************************************)
\* The last action began by publishing status st on uploading.
Published(st) == trace # <<>> /\ trace[1] = <<"uploading.next", st>>

\* The last action was a call of uploadSerial.
UploadSerialReturned ==
  Len(trace) = 3 /\ trace[1] = <<"uploading.next", UPLOAD_IN_PROGRESS>>

\* C1: a subscription to uploadingError that was active when IN_PROGRESS was
\* published delivers no ERROR in a cycle whose first terminal status was
\* DONE, and a subscription to uploadingDone that was active when IN_PROGRESS
\* was published delivers no DONE in a cycle whose first terminal status was
\* ERROR.
C1_NoOppositeAfterFirst ==
  /\ firstTerminal = UPLOAD_DONE => \A i \in atIP[2] : errSubs[i].got = <<>>
  /\ firstTerminal = UPLOAD_ERROR => \A i \in atIP[1] : doneSubs[i].got = <<>>

\* C1 happens: IN_PROGRESS with an active uploadingError subscription, then
\* DONE, then an ERROR in the same cycle, which the subscription did not get.
C1_Witness ==
  /\ firstTerminal = UPLOAD_DONE
  /\ atIP[2] # {}
  /\ uploading.status = UPLOAD_ERROR
  /\ \A i \in atIP[2] : errSubs[i].got = <<>> /\ errSubs[i].inner.got # <<>>

\* C2: DONE and ERROR are published only in a session that an IN_PROGRESS
\* began, and after the first of them the other is not published until the
\* next IN_PROGRESS.
C2_SessionOrder ==
  /\ uploading.status \in {UPLOAD_DONE, UPLOAD_ERROR} => everIP
  /\ firstTerminal = UPLOAD_DONE => uploading.status = UPLOAD_DONE
  /\ firstTerminal = UPLOAD_ERROR => uploading.status = UPLOAD_ERROR

\* C3: while the latest value of channelOpen is falsy no polling loop is
\* alive and the last action, the close included, did not invoke cb.
C3_NoCallbackWhileClosed ==
  ~Truthy(channelOpen) =>
    /\ NumLoops(observers) = 0
    /\ \A i \in 1..Len(trace) : trace[i][1] # "cb"

\* C3 happens: a close has just cancelled a running loop.
C3_Witness ==
  /\ channelOpen = "false"
  /\ trace # <<>>
  /\ trace[1] = <<"channelOpen.next", "false">>
  /\ \E i \in 1..Len(trace) : trace[i][1] = "interval.unsubscribe"

\* C4: with one openChannel subscription, a step that takes channelOpen from
\* a truthy to a falsy value publishes the empty device list once and false
\* on agentFound once, and leaves both streams at those values.
C4_ResetOncePerClose ==
  [][(/\ Truthy(channelOpen)
      /\ ~Truthy(channelOpen')
      /\ NumOpenChannel(observers) = 1)
     => /\ Count(trace', <<"devicesList.next", "empty">>) = 1
        /\ Count(trace', <<"devicesList.next", "non-empty">>) = 0
        /\ Count(trace', <<"agentFound.next", "false">>) = 1
        /\ devicesList' = EmptyDevices
        /\ agentFound' = "false"]_vars

\* C4 happens: one openChannel subscription has just seen an open channel
\* close, after devices and the agent had been found.
C4_Witness ==
  /\ NumOpenChannel(observers) = 1
  /\ channelOpen = "false"
  /\ trace = << <<"channelOpen.next", "false">>,
                <<"devicesList.next", "empty">>,
                <<"agentFound.next", "false">>,
                <<"interval.unsubscribe", "cb1">> >>
  /\ everNonEmpty

\* C5: an action calls closeAllPorts exactly when it publishes a non-empty
\* serial list and none was published before; it makes the call once.
C5_CloseAllPortsOnce ==
  [][Count(trace', <<"closeAllPorts", "">>) =
       IF ~everNonEmpty /\ Count(trace', <<"devicesList.next", "non-empty">>) > 0
       THEN 1 ELSE 0]_vars

\* C5 happens: a non-empty serial list is published after the first one and
\* after a reset to the empty list, and closeAllPorts is not called.
C5_Witness ==
  /\ ~closeArmed
  /\ NumOpenChannel(observers) > 0
  /\ ~Truthy(channelOpen)
  /\ SerialNonEmpty(devicesList)
  /\ trace = << <<"devicesList.next", "non-empty">> >>

\* The values a subscription got in this step.
NewlyGot(subs, i) ==
  IF i <= Len(subs) THEN SubSeq(subs'[i].got, Len(subs[i].got) + 1, Len(subs'[i].got))
  ELSE subs'[i].got

\* C6: a subscription to uploadingDone delivers at most one value, the first
\* DONE published after the most recent IN_PROGRESS; an ERROR published while
\* it is active completes it empty, and a completed subscription never
\* changes again.  uploadingError is the mirror.
C6_OneShotNotRearmed ==
  /\ [](/\ \A i \in 1..Len(doneSubs) : Len(doneSubs[i].got) <= 1
        /\ \A i \in 1..Len(errSubs) : Len(errSubs[i].got) <= 1)
  /\ [][/\ \A i \in 1..Len(doneSubs') :
             /\ NewlyGot(doneSubs, i) # <<>> =>
                  /\ NewlyGot(doneSubs, i) = <<uploading'>>
                  /\ uploading'.status = UPLOAD_DONE
                  /\ everIP' /\ donesSinceIP' = 1
             /\ i <= Len(doneSubs) /\ ~doneSubs[i].open => doneSubs'[i] = doneSubs[i]
             /\ i <= Len(doneSubs) /\ doneSubs[i].open /\ Published(UPLOAD_ERROR)' =>
                  ~doneSubs'[i].open /\ doneSubs'[i].got = <<>>
        /\ \A i \in 1..Len(errSubs') :
             /\ NewlyGot(errSubs, i) # <<>> =>
                  /\ NewlyGot(errSubs, i) = <<uploading'>>
                  /\ uploading'.status = UPLOAD_ERROR
                  /\ everIP' /\ errorsSinceIP' = 1
             /\ i <= Len(errSubs) /\ ~errSubs[i].open => errSubs'[i] = errSubs[i]
             /\ i <= Len(errSubs) /\ errSubs[i].open /\ Published(UPLOAD_DONE)' =>
                  ~errSubs'[i].open /\ errSubs'[i].got = <<>>]_vars

\* The extension that follows the token in the template passed to the call,
\* and whether the token is there.
PassedExt == ExtAfterToken(args[1].commandline)

PassedHasToken == IndexOf(args[1].commandline, ProjectNameToken) >= 0

\* C7: when the template passed to uploadSerial holds the token followed by a
\* three-character extension that is a key of compilationResult, the payload
\* given to _upload is named sketchName.ext and carries compilationResult[ext]
\* as hex and as data.
C7_FilenameFromTemplate ==
  (/\ UploadSerialReturned
   /\ PassedHasToken
   /\ Len(PassedExt) = 3
   /\ HasKey(args[1].compilationResult, PassedExt))
  => /\ uploaded[1].payload.filename = args[1].sketchName \o <<".">> \o PassedExt
     /\ uploaded[1].payload.hex = Lookup(args[1].compilationResult, PassedExt)
     /\ uploaded[1].payload.data = Lookup(args[1].compilationResult, PassedExt)

\* C8: when the template passed to uploadSerial has no token, or nothing
\* after it, or compilationResult has no entry for the extension after it,
\* the payload is named sketchName.bin and _upload is called once.
C8_FallbackToBin ==
  (/\ UploadSerialReturned
   /\ \/ ~PassedHasToken
      \/ PassedExt = <<>>
      \/ ~HasKey(args[1].compilationResult, PassedExt))
  => /\ uploaded[1].payload.filename = args[1].sketchName \o <<".">> \o Bin
     /\ Count(trace, <<"_upload", "uploadPayload">>) = 1

\* Some position holds devices that differ in Name or in IsOpen.
SomePositionDiffers(a, b) ==
  \E i \in 1..Len(a) : a[i].Name # b[i].Name \/ a[i].IsOpen # b[i].IsOpen

\* C9: devicesListAreEquals(a, b) is false when a or b is absent, when the
\* lengths differ and when some position differs in Name or IsOpen, and true
\* in every other case.
C9_PositionalEquality ==
  eqResult.called =>
    eqResult.value =
      ~(\/ eqA.null
        \/ eqB.null
        \/ Len(eqA.list) # Len(eqB.list)
        \/ SomePositionDiffers(eqA.list, eqB.list))

\* C9 happens: two present lists of one length whose names agree everywhere
\* and whose IsOpen differs somewhere were compared, and found different.
C9_Witness ==
  /\ eqResult.called
  /\ ~eqResult.value
  /\ ~eqA.null /\ ~eqB.null
  /\ Len(eqA.list) = MaxListLen /\ Len(eqB.list) = MaxListLen
  /\ \A i \in 1..MaxListLen : eqA.list[i].Name = eqB.list[i].Name
  /\ eqA.list[MaxListLen].IsOpen # eqB.list[MaxListLen].IsOpen

\* The lists hold the same devices the same number of times.
SameMultiset(a, b) ==
  /\ Len(a) = Len(b)
  /\ \A d \in Device :
       Cardinality({i \in 1..Len(a) : a[i] = d}) =
       Cardinality({i \in 1..Len(b) : b[i] = d})

\* C10: two lists that hold the same devices in a different order are not
\* equal for devicesListAreEquals.
C10_OrderSensitive ==
  (/\ eqResult.called
   /\ ~eqA.null /\ ~eqB.null
   /\ SameMultiset(eqA.list, eqB.list)
   /\ eqA.list # eqB.list)
  => ~eqResult.value

\* C10 happens: a list and its reversal, which differ, were compared.
C10_Witness ==
  /\ eqResult.called
  /\ ~eqA.null /\ ~eqB.null
  /\ Len(eqA.list) = 2
  /\ eqB.list = <<eqA.list[2], eqA.list[1]>>
  /\ eqA.list # eqB.list
  /\ ~eqResult.value

\* C11: stopUpload throws when no stopUploadCommand function is registered;
\* when one is registered it calls it exactly once and throws nothing; in
\* both cases the call publishes nothing on uploading.
C11_StopUpload ==
  [][(trace' # <<>> /\ trace'[1] = <<"stopUpload", "">>) =>
       /\ ~stopUploadCommand =>
            Tail(trace') = << <<"throw", "Stop Upload not supported on Chrome OS">> >>
       /\ stopUploadCommand => Tail(trace') = << <<"stopUploadCommand", "">> >>
       /\ \A st \in {UPLOAD_NOPE, UPLOAD_DONE, UPLOAD_ERROR, UPLOAD_IN_PROGRESS} :
            Count(trace', <<"uploading.next", st>>) = 0
       /\ uploading' = uploading
       /\ doneSubs' = doneSubs
       /\ errSubs' = errSubs]_vars

\* stopUpload has thrown during an upload in progress.
C11_Witness ==
  /\ trace = << <<"stopUpload", "">>,
               <<"throw", "Stop Upload not supported on Chrome OS">> >>
  /\ uploading.status = UPLOAD_IN_PROGRESS
  /\ ~stopUploadCommand

\* The values handed to the subscriber name in a step, in order.
RECURSIVE DeliveredTo(_, _)
DeliveredTo(tr, name) ==
  IF tr = <<>> THEN <<>>
  ELSE (IF Head(tr)[1] = name THEN <<Head(tr)[2]>> ELSE <<>>)
         \o DeliveredTo(Tail(tr), name)

\* C12: a subscriber of channelOpenStatus gets the current value when it
\* subscribes and never gets the value it got last; a subscriber of
\* channelOpen gets the current value when it subscribes and then every
\* published value, repeated ones too, one per publication.
C12_StatusDistinctRawAll ==
  [][/\ \A k \in 1..NumStatusSubs(observers') :
          IF k > NumStatusSubs(observers)
          THEN DeliveredTo(trace', StatusIds[k]) = <<channelOpen>>
          ELSE \/ DeliveredTo(trace', StatusIds[k]) = <<>>
               \/ /\ Len(DeliveredTo(trace', StatusIds[k])) = 1
                  /\ DeliveredTo(trace', StatusIds[k])[1] # statusGot[k]
     /\ \A k \in 1..NumRawSubs(observers') :
          IF k > NumRawSubs(observers)
          THEN DeliveredTo(trace', RawIds[k]) = <<channelOpen>>
          ELSE IF trace' # <<>> /\ trace'[1][1] = "channelOpen.next"
          THEN DeliveredTo(trace', RawIds[k]) = <<trace'[1][2]>>
          ELSE DeliveredTo(trace', RawIds[k]) = <<>>]_vars

\* true was published twice in a row: the channelOpenStatus subscriber got
\* the first only, the channelOpen subscriber has just got the second.
C12_Witness ==
  /\ NumStatusSubs(observers) = 1
  /\ NumRawSubs(observers) = 1
  /\ trace # <<>>
  /\ trace[1] = <<"channelOpen.next", "true">>
  /\ statusGot[1] = "true"
  /\ DeliveredTo(trace, StatusIds[1]) = <<>>
  /\ DeliveredTo(trace, RawIds[1]) = <<"true">>

\* C13: the UploadCommandInfo that uploadSerial hands to _upload holds the
\* commandline and the signature passed to the call, with the options
\* use_1200bps_touch and wait_for_upload_port set to "true", and the payload
\* holds the same commandline.
C13_InfoFromArguments ==
  UploadSerialReturned =>
    /\ uploaded[1].info.commandline = args[1].commandline
    /\ uploaded[1].info.signature = args[1].signature
    /\ uploaded[1].info.options =
         [use_1200bps_touch |-> "true", wait_for_upload_port |-> "true"]
    /\ uploaded[1].payload.commandline = args[1].commandline

\* The positions of the calls of _upload in the trace of a step.
UploadCalls(tr) == {i \in 1..Len(tr) : tr[i][1] = "_upload"}

\* C14: uploadSerial publishes IN_PROGRESS on uploading, then calls
\* closeSerialMonitor with target.port, then calls _upload, in that order;
\* when _upload is called the latest value of uploading is IN_PROGRESS,
\* whatever it was before the call.
C14_PublishCloseUpload ==
  [][\A i \in UploadCalls(trace') :
       \E j \in 1..(i - 1) : \E k \in (j + 1)..(i - 1) :
         /\ trace'[j] = <<"uploading.next", UPLOAD_IN_PROGRESS>>
         /\ trace'[k] = <<"closeSerialMonitor", args'[1].target.port>>
         /\ \A l \in (j + 1)..(i - 1) : trace'[l][1] # "uploading.next"
         /\ uploading'.status = UPLOAD_IN_PROGRESS]_vars

\* uploadSerial has returned in a Daemon whose earlier upload had ended in
\* DONE and then been failed: the value is IN_PROGRESS again.
C14_Witness ==
  /\ UploadSerialReturned
  /\ Len(doneSubs) >= 1
  /\ Len(errSubs) >= 1
  /\ doneSubs[1].got # <<>>
  /\ errSubs[1].got # <<>>
  /\ uploading.status = UPLOAD_IN_PROGRESS

\* The callbacks that openChannel has subscribed, and those with a polling
\* loop alive, whose next tick invokes them.
Subscribed(obs) == {obs[i][2] : i \in {j \in 1..Len(obs) : obs[j][1] = "openChannel"}}

Polling(obs) == {obs[i][2] : i \in {j \in 1..Len(obs) : obs[j][1] = "takeUntil"}}

\* C15: after openChannel(cb), a step that takes channelOpen from a falsy to
\* a truthy value invokes cb within that step and leaves a polling loop for
\* cb alive, and while channelOpen stays truthy every subscribed cb keeps a
\* loop alive, whose ticks invoke it; a close that cancelled an earlier loop
\* changes nothing to this.
C15_OpenStartsPolling ==
  [][/\ (~Truthy(channelOpen) /\ Truthy(channelOpen')) =>
          \A cb \in Subscribed(observers) :
            /\ Count(trace', <<"cb", cb>>) >= 1
            /\ cb \in Polling(observers')
     /\ Truthy(channelOpen') => Subscribed(observers') \subseteq Polling(observers')]_vars

\* A re-open after a close that cancelled a loop has just invoked cb1 and
\* left a loop for it.
C15_Witness ==
  /\ everCancelled
  /\ trace # <<>>
  /\ trace[1] = <<"channelOpen.next", "true">>
  /\ Count(trace, <<"cb", "cb1">>) = 1
  /\ "cb1" \in Polling(observers)

\* A download subscription and an upload subscription have delivered
\* corresponding values and are both active or both complete.
SameOneShot(dl, up) ==
  /\ dl.open = up.open
  /\ Len(dl.got) = Len(up.got)
  /\ \A i \in 1..Len(dl.got) : AsUpload(dl.got[i]) = up.got[i]

\* C16: fed the same publications under the renaming of the statuses and
\* subscribed at the same moments, downloadingDone and downloadingError have
\* delivered and completed exactly as uploadingDone and uploadingError have,
\* in every state; downloading starts at DOWNLOAD_NOPE.
C16_DownloadMirrorsUpload ==
  /\ trace = <<>> => downloading = Status(DOWNLOAD_NOPE)
  /\ AsUpload(downloading) = uploading
  /\ Len(dlDoneSubs) = Len(doneSubs)
  /\ Len(dlErrSubs) = Len(errSubs)
  /\ \A i \in 1..Len(dlDoneSubs) : SameOneShot(dlDoneSubs[i], doneSubs[i])
  /\ \A i \in 1..Len(dlErrSubs) : SameOneShot(dlErrSubs[i], errSubs[i])

\* A download ended in DONE and was then failed: downloadingDone delivered
\* the DONE and downloadingError completed without a value.
C16_Witness ==
  /\ downloading.status = DOWNLOAD_ERROR
  /\ Len(dlDoneSubs) >= 1
  /\ Len(dlErrSubs) >= 1
  /\ Len(dlDoneSubs[1].got) = 1
  /\ dlDoneSubs[1].got[1].status = DOWNLOAD_DONE
  /\ ~dlErrSubs[1].open
  /\ dlErrSubs[1].got = <<>>

\* The step was made by connectivity, the device list, a polling tick or
\* stopUpload.
FrameStep(tr) ==
  /\ tr # <<>>
  /\ tr[1][1] \in {"channelOpen.next", "devicesList.next", "agentFound.next",
                   "cb", "stopUpload"}

PublishesOnTransfers(tr) ==
  \E i \in 1..Len(tr) : tr[i][1] \in {"uploading.next", "downloading.next"}

\* C17: a change of channelOpen (a close, with its reset of devicesList and
\* agentFound, included), a device list publication, a polling tick and
\* stopUpload publish nothing on uploading or downloading and leave both
\* values as they were; an IN_PROGRESS upload status ends only by a
\* publication of DONE or ERROR.
C17_UploadStatusFrame ==
  [][/\ FrameStep(trace') =>
          /\ ~PublishesOnTransfers(trace')
          /\ uploading' = uploading
          /\ downloading' = downloading
     /\ (uploading.status = UPLOAD_IN_PROGRESS
           /\ uploading'.status # UPLOAD_IN_PROGRESS) =>
          /\ trace'[1][1] = "uploading.next"
          /\ trace'[1][2] \in {UPLOAD_DONE, UPLOAD_ERROR}]_vars

\* The channel has just closed in the middle of an upload and of a
\* download: the device list and agentFound are reset, both statuses are
\* still IN_PROGRESS.
C17_Witness ==
  /\ trace # <<>>
  /\ trace[1] = <<"channelOpen.next", "false">>
  /\ Count(trace, <<"devicesList.next", "empty">>) = 1
  /\ Count(trace, <<"interval.unsubscribe", "cb1">>) >= 1
  /\ agentFound = "false"
  /\ uploading.status = UPLOAD_IN_PROGRESS
  /\ downloading.status = DOWNLOAD_IN_PROGRESS

\* C18: at most one polling loop is alive at any moment, and no step, an
\* open notification included, invokes a polling callback more than once,
\* whatever was published on channelOpen and however often openChannel was
\* called.
C18_AtMostOneLoop ==
  /\ NumLoops(observers) <= 1
  /\ \A cb \in Callbacks : Count(trace, <<"cb", cb>>) <= 1

\* C19: a subscription to uploadingDone made while the status is DONE
\* delivers that DONE at once and completes; made while the status is ERROR
\* it completes with nothing delivered; a subscription to uploadingError made
\* while the status is ERROR delivers that ERROR at once and completes,
\* whatever was published before; made while the status is DONE it completes
\* with nothing delivered; a completed subscription delivers nothing later.
C19_LateSubscriber ==
  [][/\ Len(doneSubs') = Len(doneSubs) + 1 =>
          LET sub == doneSubs'[Len(doneSubs')]
          IN /\ uploading.status = UPLOAD_DONE =>
                  ~sub.open /\ sub.got = <<uploading>>
             /\ uploading.status = UPLOAD_ERROR =>
                  ~sub.open /\ sub.got = <<>>
     /\ Len(errSubs') = Len(errSubs) + 1 =>
          LET sub == errSubs'[Len(errSubs')]
          IN /\ uploading.status = UPLOAD_ERROR =>
                  ~sub.open /\ sub.got = <<uploading>>
             /\ uploading.status = UPLOAD_DONE =>
                  ~sub.open /\ sub.got = <<>>
     /\ \A i \in 1..Len(doneSubs) :
          ~doneSubs[i].open =>
            ~doneSubs'[i].open /\ doneSubs'[i].got = doneSubs[i].got
     /\ \A i \in 1..Len(errSubs) :
          ~errSubs[i].open =>
            ~errSubs'[i].open /\ errSubs'[i].got = errSubs[i].got]_vars

\* uploadingError has just been subscribed while the status is ERROR, a
\* DONE having been published earlier in the same cycle: it has delivered
\* the ERROR.
C19_Witness ==
  /\ trace = << <<"subscribe", "uploadingError">> >>
  /\ uploading.status = UPLOAD_ERROR
  /\ everIP
  /\ donesSinceIP >= 1
  /\ errSubs[Len(errSubs)].got = <<uploading>>
  /\ ~errSubs[Len(errSubs)].open

\* C20: over present lists a, b, c, devicesListAreEquals(a, a) is true,
\* devicesListAreEquals(a, b) and devicesListAreEquals(b, a) agree, and
\* devicesListAreEquals(a, b) with devicesListAreEquals(b, c) gives
\* devicesListAreEquals(a, c).
C20_EquivalenceRelation ==
  eqRel.called =>
    /\ eqRel.aa
    /\ eqRel.ab = eqRel.ba
    /\ (eqRel.ab /\ eqRel.bc) => eqRel.ac

\* Three lists of two devices have been compared and found equal along the
\* chain.
C20_Witness ==
  /\ eqRel.called
  /\ Len(eqA.list) = 2
  /\ eqA.list[1] # eqA.list[2]
  /\ eqRel.ab
  /\ eqRel.bc
  /\ eqRel.ac

====
